---- MODULE Spec2Model ----
(***************************************************************************)
(* Exam_Tester_Backend: the exam-attempt timer/state machine and the       *)
(* submission gate, as the Express handlers run them against the MongoDB   *)
(* collections.  A handler is a sequence of steps, one per `await`: the    *)
(* store operation that the await performs followed by the synchronous     *)
(* code up to the next await.  Handlers of different requests interleave   *)
(* at these steps.                                                         *)
(***************************************************************************)
EXTENDS Integers, FiniteSets, Sequences, TLC

VARIABLES
    exams,        \* the Exams collection
    attempts,     \* the ExamAttempt collection
    submissions,  \* the Submissions collection
    subUnique,    \* whether the Submissions collection carries the unique index
    files,        \* the files that the GridFS storage holds, of all buckets
    now,          \* the wall clock, in milliseconds (Date.now())
    nextId,       \* the next ObjectId the driver generates
    reqs          \* the requests being served, per connection

vars == <<exams, attempts, submissions, subUnique, files, now, nextId, reqs>>

(***************************************************************************)
(* Bounds of the model.                                                    *)
(***************************************************************************)
MaxTicks == 1      \* clock advances
MaxId == 3         \* documents ever constructed
MaxExams == 1      \* exams ever created
MaxConcurrent == 2 \* requests served at the same time

Slots == 1..MaxConcurrent          \* the connections
Students == {"s1"}
Teachers == {"t1"}
Classmates == {"s2"}               \* the students of the second account
Colleagues == {"t2"}               \* the teachers who only manage exams
Admins == {"a1"}
Durations == {1}                   \* minutes, within the schema's 1..300
Mimes == {"application/pdf"}       \* the type of an uploaded exam file
ExamMimes == {"application/pdf", "image/png"}
TimeInputs == {0 - 5, 0, 1, 90}   \* bodies' timeRemaining, in seconds
TickSteps == {500, 60000}          \* milliseconds

Max(a, b) == IF a >= b THEN a ELSE b

\* number of clock advances that lead to the clock value t
TickCount(t) == (t \div 60000) + ((t % 60000) \div 500)

(***************************************************************************)
(* Documents.                                                              *)
(***************************************************************************)
NoDoc == [id |-> 0]

\* new Exam({title, examFileId, duration, createdBy}); isActive defaults to true
NewExam(id, t, d, f) ==
    [id |-> id, examFileId |-> f, duration |-> d, createdBy |-> t,
     isActive |-> TRUE]

\* The file that the GridFS storage writes for an upload.  Its file function
\* names the bucket 'exams' for a PDF and returns null for any other type; a
\* file written then is in the storage's default bucket.
NewFile(id, mime) ==
    [id |-> id,
     bucketName |-> IF mime = "application/pdf" THEN "exams" ELSE "fs",
     contentType |-> mime]

\* mutant: the attempt is given the exam's minutes as its seconds
NewExamAttemptMinutes(id, s, e, tr, t) ==
    [id |-> id, studentId |-> s, examId |-> e, startedAt |-> t,
     lastAccessedAt |-> t, timeRemaining |-> tr \div 60, status |-> "started",
     isCompleted |-> FALSE]

\* new ExamAttempt({studentId, examId, timeRemaining, status: 'started'}):
\* startedAt and lastAccessedAt default to Date.now, isCompleted to false
NewExamAttempt(id, s, e, tr, t) ==
    [id |-> id, studentId |-> s, examId |-> e, startedAt |-> t,
     lastAccessedAt |-> t, timeRemaining |-> tr, status |-> "started",
     isCompleted |-> FALSE]

\* new Submission({studentId, examId, answerUrl}): submittedAt defaults to
\* Date.now, status to 'submitted'
NewSubmission(id, s, e, url, t) ==
    [id |-> id, studentId |-> s, examId |-> e, answerUrl |-> url,
     submittedAt |-> t, status |-> "submitted"]

AttemptFields ==
    {"startedAt", "lastAccessedAt", "timeRemaining", "status", "isCompleted"}

(***************************************************************************)
(* The store.                                                              *)
(***************************************************************************)
\* Model.findOne({studentId, examId}): the matching rows
ByPair(coll, s, e) == {d \in coll : d.studentId = s /\ d.examId = e}

\* mutant: the attempt is looked up by its id alone
ByIdAnyStudent(coll, id, s) == {d \in coll : d.id = id}

\* ExamAttempt.findOne({_id: attemptId, studentId: studentId})
ByIdAndStudent(coll, id, s) == {d \in coll : d.id = id /\ d.studentId = s}

\* findOne returns one of the matching rows (the first in natural order)
One(rows) == CHOOSE d \in rows : \A o \in rows : d.id <= o.id

\* mutant: the collection has no unique index
NoUniqueIndex(coll, doc) == FALSE

\* The unique index { studentId: 1, examId: 1 }: an insert of doc is rejected
\* (E11000 duplicate key) when a row with the same key is in the collection.
DuplicateKey(coll, doc) ==
    \E d \in coll : d.studentId = doc.studentId /\ d.examId = doc.examId

\* The paths of doc that differ from the loaded row: what Mongoose marks as
\* modified when the handler assigns them.
Modified(old, doc) == {f \in AttemptFields : old[f] # doc[f]}

\* document.save() of a loaded document: updateOne({_id}, {$set: <modified paths>})
ApplyDelta(coll, doc, mod) ==
    LET Set(d, f) == IF f \in mod THEN doc[f] ELSE d[f] IN
    {IF d.id = doc.id
        THEN [id |-> d.id, studentId |-> d.studentId, examId |-> d.examId,
              startedAt |-> Set(d, "startedAt"),
              lastAccessedAt |-> Set(d, "lastAccessedAt"),
              timeRemaining |-> Set(d, "timeRemaining"),
              status |-> Set(d, "status"),
              isCompleted |-> Set(d, "isCompleted")]
        ELSE d : d \in coll}

(***************************************************************************)
(* The timer.                                                              *)
(***************************************************************************)
\* mutant: the time since the last access instead of since the start
ElapsedSinceAccess(a, t) == (t - a.lastAccessedAt) \div 1000

\* Math.floor((now - attempt.startedAt) / 1000)
TimeElapsed(a, t) == (t - a.startedAt) \div 1000

\* Math.max(0, attempt.timeRemaining - timeElapsed)
RemainingTime(a, t) == Max(0, a.timeRemaining - TimeElapsed(a, t))

\* mutant: the input is stored as it comes
NoClamp(tr) == tr

\* Math.max(0, timeRemaining)
Clamp(tr) == Max(0, tr)

\* mutant: a resume restarts the timer of a one-minute exam
ResumeRestart(a, t) ==
    [a EXCEPT !.lastAccessedAt = t, !.status = "started", !.timeRemaining = 60]

\* Resume existing attempt
Resume(a, t) == [a EXCEPT !.lastAccessedAt = t, !.status = "started"]

\* mutant: the expiry leaves the stored timeRemaining
ExpireStatusOnly(a) == [a EXCEPT !.status = "expired"]

\* mutant: the expiry check parks the attempt as paused
ExpireAsPaused(a) == [a EXCEPT !.status = "paused", !.timeRemaining = 0]

\* GET /:examId, the expiry branch
Expire(a) == [a EXCEPT !.status = "expired", !.timeRemaining = 0]

\* PUT /:attemptId/time
SetTime(a, tr, t) ==
    LET c == Clamp(tr) IN
    [a EXCEPT !.timeRemaining = c, !.lastAccessedAt = t,
              !.status = IF c <= 0 THEN "expired" ELSE @]

\* mutant: the completion sets the status alone
MarkStatusOnly(a) == [a EXCEPT !.status = "completed"]

\* PUT /:attemptId/complete
MarkCompleted(a) == [a EXCEPT !.status = "completed", !.isCompleted = TRUE]

(***************************************************************************)
(* Requests and responses.                                                 *)
(***************************************************************************)
NoResp == [code |-> 0, msg |-> "none", att |-> NoDoc]

Idle ==
    [op |-> "none", user |-> "none", target |-> 0, arg |-> 0, pc |-> "idle",
     doc |-> NoDoc, mod |-> {}, isNew |-> FALSE, aux |-> 0, ref |-> <<>>,
     resp |-> NoResp]

Free(r) == reqs[r].pc \in {"idle", "done"}

\* the request of slot r starts being served
Accept(r, op, u, target, arg, pc) ==
    reqs' = [reqs EXCEPT ![r] =
        [Idle EXCEPT !.op = op, !.user = u, !.target = target, !.arg = arg,
                     !.pc = pc]]

\* res.status(code).json(...): the handler of slot r ends
Respond(r, code, msg, att) ==
    reqs' = [reqs EXCEPT ![r] =
        [Idle EXCEPT !.op = reqs[r].op, !.user = reqs[r].user,
                     !.target = reqs[r].target, !.arg = reqs[r].arg,
                     !.ref = reqs[r].ref, !.pc = "done",
                     !.resp = [code |-> code, msg |-> msg, att |-> att]]]

\* the request is refused before its handler runs
Refuse(r, op, u, target, arg, code, msg) ==
    reqs' = [reqs EXCEPT ![r] =
        [Idle EXCEPT !.op = op, !.user = u, !.target = target, !.arg = arg,
                     !.pc = "done",
                     !.resp = [code |-> code, msg |-> msg, att |-> NoDoc]]]

\* the handler of slot r goes on to its next await
Goto(r, pc) == reqs' = [reqs EXCEPT ![r].pc = pc]

\* the handler holds a document it is about to save
Hold(r, pc, doc, mod, isNew, aux) ==
    reqs' = [reqs EXCEPT ![r].pc = pc, ![r].doc = doc, ![r].mod = mod,
                         ![r].isNew = isNew, ![r].aux = aux]

\* documents that requests in flight may still construct
Pending ==
    Cardinality({r \in Slots : /\ ~Free(r)
                               /\ reqs[r].op \in {"start", "submit", "createExam"}
                               /\ reqs[r].pc # "save"})

\* exams that requests in flight are creating
Creating ==
    Cardinality({r \in Slots : ~Free(r) /\ reqs[r].op = "createExam"})

(***************************************************************************)
(* POST /api/exams (the teacher's exam appears in the collection).         *)
(***************************************************************************)
CreateExam(r, t, d, mime) ==
    /\ Free(r)
    /\ nextId + Pending <= MaxId
    \* uploadExamFile.single('examPdf') has run when the handler starts: a PDF
    \* is in the bucket 'exams'; for another type the storage's file function
    \* returns null, on which the storage either writes the file to its
    \* default bucket or passes no file on (!req.file)
    /\ \E stored \in BOOLEAN :
          /\ mime = "application/pdf" => stored
          /\ IF stored
                THEN /\ files' = files \cup {NewFile(Cardinality(files) + 1, mime)}
                     /\ reqs' = [reqs EXCEPT ![r] =
                           [Idle EXCEPT !.op = "createExam", !.user = t,
                                        !.arg = d, !.pc = "save",
                                        !.aux = Cardinality(files) + 1]]
                ELSE /\ files' = files
                     /\ Refuse(r, "createExam", t, 0, d, 400,
                               "Exam file is required")
    /\ UNCHANGED <<exams, attempts, submissions, subUnique, now, nextId>>

CreateExamSave(r) ==
    /\ reqs[r].op = "createExam" /\ reqs[r].pc = "save"
    /\ exams' = exams \cup {NewExam(nextId, reqs[r].user, reqs[r].arg,
                                    reqs[r].aux)}
    /\ nextId' = nextId + 1
    /\ Respond(r, 201, "Exam created successfully", NoDoc)
    /\ UNCHANGED <<attempts, submissions, subUnique, files, now>>

(***************************************************************************)
(* POST /api/exam-attempts/start                                           *)
(***************************************************************************)
Start(r, s, e) ==
    /\ Free(r)
    \* the request constructs no document when the pair has a row already
    /\ \/ nextId + Pending <= MaxId
       \/ ByPair(attempts, s, e) # {}
       \/ ByPair(submissions, s, e) # {}
    /\ Accept(r, "start", s, e, 0, "findExam")
    /\ UNCHANGED <<exams, attempts, submissions, subUnique, files, now, nextId>>

\* mutant: Start refuses an exam that is cancelled
StartFindActiveExam(r) ==
    /\ reqs[r].op = "start" /\ reqs[r].pc = "findExam"
    /\ LET found == {x \in exams : x.id = reqs[r].target} IN
       IF found = {}
          THEN Respond(r, 404, "Exam not found", NoDoc)
       ELSE IF ~One(found).isActive
          THEN Respond(r, 403, "Exam is not active", NoDoc)
       ELSE reqs' = [reqs EXCEPT ![r].pc = "findSubmission",
                                 ![r].aux = One(found).duration]
    /\ UNCHANGED <<exams, attempts, submissions, subUnique, files, now, nextId>>

\* const exam = await Exam.findById(examId)
StartFindExam(r) ==
    /\ reqs[r].op = "start" /\ reqs[r].pc = "findExam"
    /\ LET found == {x \in exams : x.id = reqs[r].target} IN
       IF found = {}
          THEN Respond(r, 404, "Exam not found", NoDoc)
          ELSE reqs' = [reqs EXCEPT ![r].pc = "findSubmission",
                                    ![r].aux = One(found).duration]
    /\ UNCHANGED <<exams, attempts, submissions, subUnique, files, now, nextId>>

\* mutant: Start does not look for a submission
StartSkipSubmission(r) ==
    /\ reqs[r].op = "start" /\ reqs[r].pc = "findSubmission"
    /\ Goto(r, "findAttempt")
    /\ UNCHANGED <<exams, attempts, submissions, subUnique, files, now, nextId>>

\* const existingSubmission = await Submission.findOne({studentId, examId})
StartFindSubmission(r) ==
    /\ reqs[r].op = "start" /\ reqs[r].pc = "findSubmission"
    /\ IF ByPair(submissions, reqs[r].user, reqs[r].target) # {}
          THEN Respond(r, 400, "already attempted", NoDoc)
          ELSE Goto(r, "findAttempt")
    /\ UNCHANGED <<exams, attempts, submissions, subUnique, files, now, nextId>>

\* let attempt = await ExamAttempt.findOne({studentId, examId}), then the
\* branch on it up to attempt.save()
StartFindAttempt(r) ==
    /\ reqs[r].op = "start" /\ reqs[r].pc = "findAttempt"
    /\ LET found == ByPair(attempts, reqs[r].user, reqs[r].target) IN
       IF found # {}
          THEN IF One(found).isCompleted
                  THEN /\ Respond(r, 400, "already completed", NoDoc)
                       /\ nextId' = nextId
                  ELSE /\ Hold(r, "save", Resume(One(found), now),
                               Modified(One(found), Resume(One(found), now)),
                               FALSE, reqs[r].aux)
                       /\ nextId' = nextId
          ELSE /\ Hold(r, "save",
                       NewExamAttempt(nextId, reqs[r].user, reqs[r].target,
                                      reqs[r].aux * 60, now),
                       {}, TRUE, reqs[r].aux)
               /\ nextId' = nextId + 1
    /\ UNCHANGED <<exams, attempts, submissions, subUnique, files, now>>

\* await attempt.save(), then res.json({success: true, data: {attempt}});
\* a rejected insert is caught and answered with 500
StartSave(r) ==
    /\ reqs[r].op = "start" /\ reqs[r].pc = "save"
    /\ IF reqs[r].isNew
          THEN IF DuplicateKey(attempts, reqs[r].doc)
                  THEN /\ Respond(r, 500, "Server error", NoDoc)
                       /\ attempts' = attempts
                  ELSE /\ attempts' = attempts \cup {reqs[r].doc}
                       /\ Respond(r, 200, "ok", reqs[r].doc)
          ELSE /\ attempts' = ApplyDelta(attempts, reqs[r].doc, reqs[r].mod)
               /\ Respond(r, 200, "ok", reqs[r].doc)
    /\ UNCHANGED <<exams, submissions, subUnique, files, now, nextId>>

(***************************************************************************)
(* GET /api/exam-attempts/:examId                                          *)
(***************************************************************************)
GetStatus(r, s, e) ==
    /\ Free(r)
    /\ Accept(r, "getStatus", s, e, 0, "findAttempt")
    /\ UNCHANGED <<exams, attempts, submissions, subUnique, files, now, nextId>>

\* the attempt as the response shows it: timeRemaining is remainingTime
View(a, remaining) == [a EXCEPT !.timeRemaining = remaining]

\* mutant: every read saves the live remaining time as the checkpoint
GetStatusCheckpoint(r) ==
    /\ reqs[r].op = "getStatus" /\ reqs[r].pc = "findAttempt"
    /\ LET found == ByPair(attempts, reqs[r].user, reqs[r].target) IN
       IF found = {}
          THEN Respond(r, 200, "ok", NoDoc)
          ELSE LET a == One(found)
                   remainingTime == RemainingTime(a, now)
                   saved == [a EXCEPT !.timeRemaining = remainingTime,
                                      !.status = IF remainingTime <= 0
                                                    /\ a.status # "completed"
                                                    THEN "expired" ELSE @] IN
               Hold(r, "save", saved, Modified(a, saved), FALSE, remainingTime)
    /\ UNCHANGED <<exams, attempts, submissions, subUnique, files, now, nextId>>

\* mutant: the expiry check does not look at the status
GetStatusExpireAny(r) ==
    /\ reqs[r].op = "getStatus" /\ reqs[r].pc = "findAttempt"
    /\ LET found == ByPair(attempts, reqs[r].user, reqs[r].target) IN
       IF found = {}
          THEN Respond(r, 200, "ok", NoDoc)
          ELSE LET a == One(found)
                   remainingTime == RemainingTime(a, now) IN
               IF remainingTime <= 0
                  THEN Hold(r, "save", Expire(a), Modified(a, Expire(a)),
                            FALSE, remainingTime)
                  ELSE Respond(r, 200, "ok", View(a, remainingTime))
    /\ UNCHANGED <<exams, attempts, submissions, subUnique, files, now, nextId>>

\* const attempt = await ExamAttempt.findOne({studentId, examId}), then the
\* expiry check
GetStatusFindAttempt(r) ==
    /\ reqs[r].op = "getStatus" /\ reqs[r].pc = "findAttempt"
    /\ LET found == ByPair(attempts, reqs[r].user, reqs[r].target) IN
       IF found = {}
          THEN Respond(r, 200, "ok", NoDoc)
          ELSE LET a == One(found)
                   remainingTime == RemainingTime(a, now) IN
               IF remainingTime <= 0 /\ a.status # "completed"
                  THEN Hold(r, "save", Expire(a), Modified(a, Expire(a)),
                            FALSE, remainingTime)
                  ELSE Respond(r, 200, "ok", View(a, remainingTime))
    /\ UNCHANGED <<exams, attempts, submissions, subUnique, files, now, nextId>>

\* await attempt.save(), then res.json(...)
GetStatusSave(r) ==
    /\ reqs[r].op = "getStatus" /\ reqs[r].pc = "save"
    /\ attempts' = ApplyDelta(attempts, reqs[r].doc, reqs[r].mod)
    /\ Respond(r, 200, "ok", View(reqs[r].doc, reqs[r].aux))
    /\ UNCHANGED <<exams, submissions, subUnique, files, now, nextId>>

(***************************************************************************)
(* PUT /api/exam-attempts/:attemptId/time                                  *)
(***************************************************************************)
UpdateTime(r, s, id, tr) ==
    /\ Free(r)
    /\ Accept(r, "updateTime", s, id, tr, "findAttempt")
    /\ UNCHANGED <<exams, attempts, submissions, subUnique, files, now, nextId>>

\* const attempt = await ExamAttempt.findOne({_id, studentId}), then the
\* assignments up to attempt.save()
UpdateTimeFindAttempt(r) ==
    /\ reqs[r].op = "updateTime" /\ reqs[r].pc = "findAttempt"
    /\ LET found == ByIdAndStudent(attempts, reqs[r].target, reqs[r].user) IN
       IF found = {}
          THEN Respond(r, 404, "Exam attempt not found", NoDoc)
          ELSE Hold(r, "save", SetTime(One(found), reqs[r].arg, now),
                    Modified(One(found), SetTime(One(found), reqs[r].arg, now)),
                    FALSE, 0)
    /\ UNCHANGED <<exams, attempts, submissions, subUnique, files, now, nextId>>

UpdateTimeSave(r) ==
    /\ reqs[r].op = "updateTime" /\ reqs[r].pc = "save"
    /\ attempts' = ApplyDelta(attempts, reqs[r].doc, reqs[r].mod)
    /\ Respond(r, 200, "ok", reqs[r].doc)
    /\ UNCHANGED <<exams, submissions, subUnique, files, now, nextId>>

(***************************************************************************)
(* PUT /api/exam-attempts/:attemptId/complete                              *)
(***************************************************************************)
Complete(r, s, id) ==
    /\ Free(r)
    /\ Accept(r, "complete", s, id, 0, "findAttempt")
    /\ UNCHANGED <<exams, attempts, submissions, subUnique, files, now, nextId>>

CompleteFindAttempt(r) ==
    /\ reqs[r].op = "complete" /\ reqs[r].pc = "findAttempt"
    /\ LET found == ByIdAndStudent(attempts, reqs[r].target, reqs[r].user) IN
       IF found = {}
          THEN Respond(r, 404, "Exam attempt not found", NoDoc)
          ELSE Hold(r, "save", MarkCompleted(One(found)),
                    Modified(One(found), MarkCompleted(One(found))), FALSE, 0)
    /\ UNCHANGED <<exams, attempts, submissions, subUnique, files, now, nextId>>

CompleteSave(r) ==
    /\ reqs[r].op = "complete" /\ reqs[r].pc = "save"
    /\ attempts' = ApplyDelta(attempts, reqs[r].doc, reqs[r].mod)
    /\ Respond(r, 200, "Exam attempt marked as completed", NoDoc)
    /\ UNCHANGED <<exams, submissions, subUnique, files, now, nextId>>

(***************************************************************************)
(* POST /api/submissions                                                   *)
(***************************************************************************)
Submit(r, s, e, hasFile) ==
    /\ Free(r)
    /\ nextId + Pending <= MaxId
    /\ IF hasFile
          THEN Accept(r, "submit", s, e, 0, "findExam")
          ELSE Refuse(r, "submit", s, e, 0, 400, "Answer file is required")
    /\ UNCHANGED <<exams, attempts, submissions, subUnique, files, now, nextId>>

\* const exam = await Exam.findById(examId)
SubmitFindExam(r) ==
    /\ reqs[r].op = "submit" /\ reqs[r].pc = "findExam"
    /\ IF {x \in exams : x.id = reqs[r].target} = {}
          THEN Respond(r, 404, "Exam not found", NoDoc)
          ELSE Goto(r, "findSubmission")
    /\ UNCHANGED <<exams, attempts, submissions, subUnique, files, now, nextId>>

\* mutant: the handler uploads without looking for an earlier submission
SubmitSkipCheck(r) ==
    /\ reqs[r].op = "submit" /\ reqs[r].pc = "findSubmission"
    /\ Goto(r, "upload")
    /\ UNCHANGED <<exams, attempts, submissions, subUnique, files, now, nextId>>

\* mutant: the handler also refuses a student whose attempt is completed
SubmitCheckAttempt(r) ==
    /\ reqs[r].op = "submit" /\ reqs[r].pc = "findSubmission"
    /\ IF \/ ByPair(submissions, reqs[r].user, reqs[r].target) # {}
          \/ \E a \in ByPair(attempts, reqs[r].user, reqs[r].target) :
                a.isCompleted
          THEN Respond(r, 400, "already submitted", NoDoc)
          ELSE Goto(r, "upload")
    /\ UNCHANGED <<exams, attempts, submissions, subUnique, files, now, nextId>>

\* const existingSubmission = await Submission.findOne({studentId, examId})
SubmitFindSubmission(r) ==
    /\ reqs[r].op = "submit" /\ reqs[r].pc = "findSubmission"
    /\ IF ByPair(submissions, reqs[r].user, reqs[r].target) # {}
          THEN Respond(r, 400, "already submitted", NoDoc)
          ELSE Goto(r, "upload")
    /\ UNCHANGED <<exams, attempts, submissions, subUnique, files, now, nextId>>

\* const answerUrl = await uploadAnswerFile(req.file), which throws when the
\* upload fails; then new Submission({studentId, examId, answerUrl})
SubmitUpload(r) ==
    /\ reqs[r].op = "submit" /\ reqs[r].pc = "upload"
    /\ \E uploaded \in BOOLEAN :
          IF uploaded
             THEN /\ Hold(r, "save",
                          NewSubmission(nextId, reqs[r].user, reqs[r].target,
                                        nextId, now),
                          {}, TRUE, 0)
                  /\ nextId' = nextId + 1
             ELSE /\ Respond(r, 500, "Server error", NoDoc)
                  /\ nextId' = nextId
    /\ UNCHANGED <<exams, attempts, submissions, subUnique, files, now>>

\* await submission.save(), the two populate reads, then res.status(201);
\* a rejected insert is caught and answered with 500
SubmitSave(r) ==
    /\ reqs[r].op = "submit" /\ reqs[r].pc = "save"
    /\ IF subUnique /\ DuplicateKey(submissions, reqs[r].doc)
          THEN /\ Respond(r, 500, "Server error", NoDoc)
               /\ submissions' = submissions
          ELSE /\ submissions' = submissions \cup {reqs[r].doc}
               /\ Respond(r, 201, "Answer submitted successfully", reqs[r].doc)
    /\ UNCHANGED <<exams, attempts, subUnique, files, now, nextId>>

(***************************************************************************)
(* The users and the file references of the exam routes.                   *)
(***************************************************************************)
\* req.user.role, as the token carries it
Role(u) ==
    IF u \in Students \cup Classmates THEN "student"
    ELSE IF u \in Teachers \cup Colleagues THEN "teacher"
    ELSE "admin"

\* A file reference (req.params.id) is a string, here the sequence of its
\* characters.  The key of the stored file n is the ObjectId's 24 hex digits.
HexDigits ==
    {"0", "1", "2", "3", "4", "5", "6", "7", "8", "9",
     "a", "b", "c", "d", "e", "f"}

Digit(n) == <<"0", "1", "2", "3", "4", "5", "6", "7", "8", "9">>[n + 1]

Key(n) == [i \in 1..24 |-> IF i < 24 THEN "0" ELSE Digit(n)]

\* fileId.startsWith('http')
StartsWithHttp(ref) ==
    Len(ref) >= 4 /\ SubSeq(ref, 1, 4) = <<"h", "t", "t", "p">>

\* mongoose.Types.ObjectId.isValid(fileId), for a reference that is not a URL
IsValid(ref) == Len(ref) = 24 /\ \A i \in 1..24 : ref[i] \in HexDigits

\* exam.examPdfUrl: the Exam schema declares no such path, so the documents
\* that Mongoose hands to the handler have none (undefined)
ExamPdfUrl(x) == <<>>

\* Exam.findOne({$or: [{examFileId: fileId}, {examPdfUrl: fileId}]})
ByFile(coll, ref) == {x \in coll : Key(x.examFileId) = ref}

\* bucket.find({_id: new ObjectId(fileId)}) on the bucket 'exams'
InBucket(coll, ref) ==
    {f \in coll : f.bucketName = "exams" /\ Key(f.id) = ref}

\* res.redirect(location)
Redirect(location) == [id |-> 0, location |-> location]

\* the headers of the streamed file: Content-Type is the stored type, or
\* application/pdf when the file has none
Stream(f) ==
    [id |-> f.id,
     contentType |-> IF f.contentType = "" THEN "application/pdf"
                                           ELSE f.contentType,
     cacheControl |-> "public, max-age=3600"]

(***************************************************************************)
(* GET /api/exams/file/:id (public)                                        *)
(***************************************************************************)
\* mutant: the handler validates the reference before it looks for a URL
GetFileValidFirst(r, ref) ==
    /\ Free(r)
    /\ reqs' = [reqs EXCEPT ![r] =
          IF ~IsValid(ref)
             THEN [Idle EXCEPT !.op = "getFile", !.ref = ref, !.pc = "done",
                               !.resp = [code |-> 400,
                                         msg |-> "Invalid file ID format",
                                         att |-> NoDoc]]
             ELSE [Idle EXCEPT !.op = "getFile", !.ref = ref, !.pc = "findExam"]]
    /\ UNCHANGED <<exams, attempts, submissions, subUnique, files, now, nextId>>

GetFile(r, ref) ==
    /\ Free(r)
    /\ reqs' = [reqs EXCEPT ![r] =
          IF StartsWithHttp(ref)
             THEN [Idle EXCEPT !.op = "getFile", !.ref = ref, !.pc = "done",
                               !.resp = [code |-> 302, msg |-> "redirect",
                                         att |-> Redirect(ref)]]
          ELSE IF ~IsValid(ref)
             THEN [Idle EXCEPT !.op = "getFile", !.ref = ref, !.pc = "done",
                               !.resp = [code |-> 400,
                                         msg |-> "Invalid file ID format",
                                         att |-> NoDoc]]
          ELSE [Idle EXCEPT !.op = "getFile", !.ref = ref, !.pc = "findExam"]]
    /\ UNCHANGED <<exams, attempts, submissions, subUnique, files, now, nextId>>

\* mutant: the file of an exam is served whether the exam is active or not
GetFileAnyExam(r) ==
    /\ reqs[r].op = "getFile" /\ reqs[r].pc = "findExam"
    /\ IF ByFile(exams, reqs[r].ref) = {}
          THEN Respond(r, 404, "Exam file not found", NoDoc)
          ELSE Goto(r, "findFile")
    /\ UNCHANGED <<exams, attempts, submissions, subUnique, files, now, nextId>>

\* const exam = await Exam.findOne(...), then the checks up to bucket.find;
\* the bucket is there, as the server listens only once initGridFS has run
GetFileFindExam(r) ==
    /\ reqs[r].op = "getFile" /\ reqs[r].pc = "findExam"
    /\ LET found == ByFile(exams, reqs[r].ref) IN
       IF found = {}
          THEN Respond(r, 404, "Exam file not found", NoDoc)
       ELSE IF StartsWithHttp(ExamPdfUrl(One(found)))
          THEN Respond(r, 302, "redirect", Redirect(ExamPdfUrl(One(found))))
       ELSE IF ~One(found).isActive
          THEN Respond(r, 403, "Access denied: This exam is not currently active",
                       NoDoc)
       ELSE Goto(r, "findFile")
    /\ UNCHANGED <<exams, attempts, submissions, subUnique, files, now, nextId>>

\* const files = await bucket.find({_id}).toArray(), then the headers and
\* downloadStream.pipe(res)
GetFileFindFile(r) ==
    /\ reqs[r].op = "getFile" /\ reqs[r].pc = "findFile"
    /\ LET found == InBucket(files, reqs[r].ref) IN
       IF found = {}
          THEN Respond(r, 404, "File not found in GridFS", NoDoc)
          ELSE Respond(r, 200, "stream", Stream(One(found)))
    /\ UNCHANGED <<exams, attempts, submissions, subUnique, files, now, nextId>>

(***************************************************************************)
(* GET /api/exams                                                          *)
(***************************************************************************)
ListExams(r, u) ==
    /\ Free(r)
    /\ Accept(r, "listExams", u, 0, 0, "find")
    /\ UNCHANGED <<exams, attempts, submissions, subUnique, files, now, nextId>>

\* mutant: the query is empty for every role
MatchesAll(x, u) == TRUE

\* mutant: the query of a teacher is that of a student
MatchesActive(x, u) == Role(u) \in {"student", "teacher"} => x.isActive

\* mutant: the query of a teacher has createdBy alone
MatchesOwn(x, u) ==
    /\ Role(u) = "student" => x.isActive
    /\ Role(u) = "teacher" => x.createdBy = u

\* the query that the handler builds from req.user: isActive for a student,
\* createdBy and isActive for a teacher, nothing for any other role
Matches(x, u) ==
    /\ Role(u) = "student" => x.isActive
    /\ Role(u) = "teacher" => x.createdBy = u /\ x.isActive

\* .sort({createdAt: -1}): the exams from the newest to the oldest; an exam
\* gets its id and its createdAt in the same save, so the ids are in the
\* order of creation
RECURSIVE SortByCreatedAt(_)
SortByCreatedAt(rows) ==
    IF rows = {} THEN <<>>
    ELSE LET newest == CHOOSE x \in rows : \A y \in rows : y.id <= x.id IN
         <<newest>> \o SortByCreatedAt(rows \ {newest})

\* const exams = await Exam.find(query).populate(...).sort(...), then
\* res.json({data: {exams: exams.map(...)}})
ListExamsFind(r) ==
    /\ reqs[r].op = "listExams" /\ reqs[r].pc = "find"
    /\ Respond(r, 200, "ok",
               [id |-> 0,
                exams |-> SortByCreatedAt({x \in exams :
                                             Matches(x, reqs[r].user)})])
    /\ UNCHANGED <<exams, attempts, submissions, subUnique, files, now, nextId>>

(***************************************************************************)
(* PUT /api/exams/:id/cancel and PUT /api/exams/:id/activate               *)
(***************************************************************************)
\* mutant: the exam is looked up by its id alone
ByIdAnyCreator(coll, id, t) == {x \in coll : x.id = id}

\* Exam.findOne({_id: examId, createdBy: teacherId}): the matching rows
ByIdAndCreator(coll, id, t) == {x \in coll : x.id = id /\ x.createdBy = t}

\* Exam.findByIdAndUpdate(examId, {isActive: active})
SetActive(coll, id, active) ==
    {IF x.id = id THEN [x EXCEPT !.isActive = active] ELSE x : x \in coll}

\* verifyToken, isTeacher
Cancel(r, u, e) ==
    /\ Free(r)
    /\ IF Role(u) = "teacher"
          THEN Accept(r, "cancel", u, e, 0, "findExam")
          ELSE Refuse(r, "cancel", u, e, 0, 403,
                      "Access denied. Teacher role required.")
    /\ UNCHANGED <<exams, attempts, submissions, subUnique, files, now, nextId>>

CancelFindExam(r) ==
    /\ reqs[r].op = "cancel" /\ reqs[r].pc = "findExam"
    /\ LET found == ByIdAndCreator(exams, reqs[r].target, reqs[r].user) IN
       IF found = {}
          THEN Respond(r, 404, "Exam not found or no permission", NoDoc)
       ELSE IF ~One(found).isActive
          THEN Respond(r, 400, "Exam is already cancelled", NoDoc)
       ELSE Goto(r, "update")
    /\ UNCHANGED <<exams, attempts, submissions, subUnique, files, now, nextId>>

CancelUpdate(r) ==
    /\ reqs[r].op = "cancel" /\ reqs[r].pc = "update"
    /\ exams' = SetActive(exams, reqs[r].target, FALSE)
    /\ Respond(r, 200, "Exam cancelled successfully", NoDoc)
    /\ UNCHANGED <<attempts, submissions, subUnique, files, now, nextId>>

Activate(r, u, e) ==
    /\ Free(r)
    /\ IF Role(u) = "teacher"
          THEN Accept(r, "activate", u, e, 0, "findExam")
          ELSE Refuse(r, "activate", u, e, 0, 403,
                      "Access denied. Teacher role required.")
    /\ UNCHANGED <<exams, attempts, submissions, subUnique, files, now, nextId>>

ActivateFindExam(r) ==
    /\ reqs[r].op = "activate" /\ reqs[r].pc = "findExam"
    /\ LET found == ByIdAndCreator(exams, reqs[r].target, reqs[r].user) IN
       IF found = {}
          THEN Respond(r, 404, "Exam not found or no permission", NoDoc)
       ELSE IF One(found).isActive
          THEN Respond(r, 400, "Exam is already active", NoDoc)
       ELSE Goto(r, "update")
    /\ UNCHANGED <<exams, attempts, submissions, subUnique, files, now, nextId>>

ActivateUpdate(r) ==
    /\ reqs[r].op = "activate" /\ reqs[r].pc = "update"
    /\ exams' = SetActive(exams, reqs[r].target, TRUE)
    /\ Respond(r, 200, "Exam activated successfully", NoDoc)
    /\ UNCHANGED <<attempts, submissions, subUnique, files, now, nextId>>

(***************************************************************************)
(* GET /api/submissions and GET /api/submissions/:examId                   *)
(***************************************************************************)
\* mutant: the teacher's populate has no match
VisibleToAll(sub, u) == TRUE

\* What the list of all submissions keeps of a submission: everything for an
\* admin; for a teacher the rows whose populated examId is not null, the
\* populate matching {createdBy: req.user.id}
VisibleTo(sub, u) ==
    Role(u) = "teacher" =>
        \E x \in exams : x.id = sub.examId /\ x.createdBy = u

\* .sort({submittedAt: -1}): from the newest to the oldest, those of the same
\* millisecond in the order of their ids
RECURSIVE SortBySubmittedAt(_)
SortBySubmittedAt(rows) ==
    IF rows = {} THEN <<>>
    ELSE LET newest == CHOOSE x \in rows : \A y \in rows :
                          \/ y.submittedAt < x.submittedAt
                          \/ y.submittedAt = x.submittedAt /\ y.id <= x.id IN
         <<newest>> \o SortBySubmittedAt(rows \ {newest})

\* verifyToken, then the branch on req.user.role
ListSubmissions(r, u) ==
    /\ Free(r)
    /\ IF Role(u) \in {"admin", "teacher"}
          THEN Accept(r, "listSubmissions", u, 0, 0, "find")
          ELSE Refuse(r, "listSubmissions", u, 0, 0, 403,
                      "Access denied. Admin or Teacher role required.")
    /\ UNCHANGED <<exams, attempts, submissions, subUnique, files, now, nextId>>

\* submissions = await Submission.find().populate(...).sort(...), the filter
\* of the teacher's branch, then res.json
ListSubmissionsFind(r) ==
    /\ reqs[r].op = "listSubmissions" /\ reqs[r].pc = "find"
    /\ Respond(r, 200, "ok",
               [id |-> 0,
                submissions |->
                    SortBySubmittedAt({sub \in submissions :
                                         VisibleTo(sub, reqs[r].user)})])
    /\ UNCHANGED <<exams, attempts, submissions, subUnique, files, now, nextId>>

\* verifyToken, isTeacher
ExamSubmissions(r, u, e) ==
    /\ Free(r)
    /\ IF Role(u) = "teacher"
          THEN Accept(r, "examSubmissions", u, e, 0, "findExam")
          ELSE Refuse(r, "examSubmissions", u, e, 0, 403,
                      "Access denied. Teacher role required.")
    /\ UNCHANGED <<exams, attempts, submissions, subUnique, files, now, nextId>>

\* const exam = await Exam.findOne({_id: examId, createdBy: req.user.id})
ExamSubmissionsFindExam(r) ==
    /\ reqs[r].op = "examSubmissions" /\ reqs[r].pc = "findExam"
    /\ IF ByIdAndCreator(exams, reqs[r].target, reqs[r].user) = {}
          THEN Respond(r, 404, "Exam not found or no permission", NoDoc)
          ELSE Goto(r, "find")
    /\ UNCHANGED <<exams, attempts, submissions, subUnique, files, now, nextId>>

\* const submissions = await Submission.find({examId}).populate(...).sort(...)
ExamSubmissionsFind(r) ==
    /\ reqs[r].op = "examSubmissions" /\ reqs[r].pc = "find"
    /\ Respond(r, 200, "ok",
               [id |-> reqs[r].target,
                submissions |->
                    SortBySubmittedAt({sub \in submissions :
                                         sub.examId = reqs[r].target})])
    /\ UNCHANGED <<exams, attempts, submissions, subUnique, files, now, nextId>>

(***************************************************************************)
(* The clock.                                                              *)
(***************************************************************************)
Tick ==
    /\ TickCount(now) < MaxTicks
    /\ \E d \in TickSteps : now' = now + d
    /\ UNCHANGED <<exams, attempts, submissions, subUnique, files, nextId, reqs>>

(***************************************************************************)
(* The system.                                                             *)
(***************************************************************************)
\* The collections are empty and no request is being served.  The Submission
\* schema declares the index { studentId: 1, examId: 1 } twice, first plain and
\* then unique, under the same generated name: the store builds whichever it
\* is given first and rejects the other, so the unique one is there only when
\* the collection already carried it.
Init ==
    /\ exams = {}
    /\ attempts = {}
    /\ submissions = {}
    /\ subUnique \in BOOLEAN
    /\ files = {}
    /\ now = 0
    /\ nextId = 1
    /\ reqs = [r \in Slots |-> Idle]

\* one step of the handler that slot r runs
Step(r) ==
    \/ CreateExamSave(r)
    \/ StartFindExam(r)
    \/ StartFindSubmission(r)
    \/ StartFindAttempt(r)
    \/ StartSave(r)
    \/ GetStatusFindAttempt(r)
    \/ GetStatusSave(r)
    \/ UpdateTimeFindAttempt(r)
    \/ UpdateTimeSave(r)
    \/ CompleteFindAttempt(r)
    \/ CompleteSave(r)
    \/ SubmitFindExam(r)
    \/ SubmitFindSubmission(r)
    \/ SubmitUpload(r)
    \/ SubmitSave(r)

\* the ids a request may name: those of the collection's documents, and one
\* (0) that names none
IdsOf(coll) == {d.id : d \in coll} \cup {0}

\* a request arrives on slot r
Arrive(r) ==
    \/ \E t \in Teachers, d \in Durations, mime \in Mimes :
          /\ Cardinality(exams) + Creating < MaxExams
          /\ CreateExam(r, t, d, mime)
    \/ \E s \in Students, e \in IdsOf(exams) : Start(r, s, e)
    \/ \E s \in Students, e \in IdsOf(exams) : GetStatus(r, s, e)
    \/ \E s \in Students, id \in IdsOf(attempts), tr \in TimeInputs :
          UpdateTime(r, s, id, tr)
    \/ \E s \in Students, id \in IdsOf(attempts) : Complete(r, s, id)
    \/ \E s \in Students, e \in IdsOf(exams), hasFile \in BOOLEAN :
          Submit(r, s, e, hasFile)

\* the users of every role
Users == Students \cup Teachers \cup Colleagues \cup Admins

\* the references a file request may carry: the keys of the stored files, a
\* key of no file, URLs, and strings that are neither
RefInputs ==
    {Key(n) : n \in IdsOf(files)}
        \cup {<<"h", "t", "t", "p", "s", ":", "/", "/", "c", "d", "n">>,
              <<"h", "t", "t", "p">>, <<"e", "x", "a", "m">>, <<>>}

\* a request for one of the exam routes arrives on slot r
ExamArrive(r) ==
    \/ \E t \in Teachers \cup Colleagues, d \in Durations, mime \in ExamMimes :
          CreateExam(r, t, d, mime)
    \/ \E u \in Users, e \in IdsOf(exams) : Cancel(r, u, e)
    \/ \E u \in Users, e \in IdsOf(exams) : Activate(r, u, e)
    \/ \E u \in Users : ListExams(r, u)
    \/ \E ref \in RefInputs : GetFile(r, ref)

\* one step of the exam route's handler that slot r runs
ExamStep(r) ==
    \/ CreateExamSave(r)
    \/ CancelFindExam(r)
    \/ CancelUpdate(r)
    \/ ActivateFindExam(r)
    \/ ActivateUpdate(r)
    \/ ListExamsFind(r)
    \/ GetFileFindExam(r)
    \/ GetFileFindFile(r)

\* a request for one of the submission lists arrives on slot r
ListArrive(r) ==
    \/ \E u \in Users : ListSubmissions(r, u)
    \/ \E u \in Users, e \in IdsOf(exams) : ExamSubmissions(r, u, e)

\* one step of the submission list's handler that slot r runs
ListStep(r) ==
    \/ ListSubmissionsFind(r)
    \/ ExamSubmissionsFindExam(r)
    \/ ExamSubmissionsFind(r)

\* a request of one of the two students for an attempt arrives on slot r
OwnerArrive(r) ==
    \/ \E s \in Students \cup Classmates, e \in IdsOf(exams) : Start(r, s, e)
    \/ \E s \in Students \cup Classmates, e \in IdsOf(exams) :
          GetStatus(r, s, e)
    \/ \E s \in Students \cup Classmates, id \in IdsOf(attempts),
          tr \in TimeInputs : UpdateTime(r, s, id, tr)
    \/ \E s \in Students \cup Classmates, id \in IdsOf(attempts) :
          Complete(r, s, id)

\* one step of the attempt's handler that slot r runs
OwnerStep(r) ==
    \/ StartFindExam(r)
    \/ StartFindSubmission(r)
    \/ StartFindAttempt(r)
    \/ StartSave(r)
    \/ GetStatusFindAttempt(r)
    \/ GetStatusSave(r)
    \/ UpdateTimeFindAttempt(r)
    \/ UpdateTimeSave(r)
    \/ CompleteFindAttempt(r)
    \/ CompleteSave(r)

\* requests are served concurrently: their handlers interleave at the awaits
Next ==
    \/ \E r \in Slots : \/ Arrive(r) \/ Step(r)
                       \/ ExamArrive(r) \/ ExamStep(r)
                       \/ ListArrive(r) \/ ListStep(r)
                       \/ OwnerArrive(r)
    \/ Tick

\* The whole system.  The properties below are established on three parts of
\* it: ConcSpec, the races between the handlers that insert, SeqSpec, the
\* attempt and submission requests served one after the other while the clock
\* runs, and ExamSpec, the requests of the exam routes served one after the
\* other.
Spec == Init /\ [][Next]_vars

\* The races between the handlers that insert: the requests that create
\* documents or decide whether one may be created, served concurrently within
\* one millisecond.  A request arrives on the first free connection.
FirstFree(r) == \A q \in Slots : q < r => ~Free(q)

ConcArrive(r) ==
    \/ \E t \in Teachers, d \in Durations, mime \in Mimes :
          /\ Cardinality(exams) + Creating < MaxExams
          /\ CreateExam(r, t, d, mime)
    \/ \E s \in Students, e \in IdsOf(exams) : Start(r, s, e)
    \/ \E s \in Students, id \in IdsOf(attempts) : Complete(r, s, id)
    \/ \E s \in Students, e \in IdsOf(exams), hasFile \in BOOLEAN :
          Submit(r, s, e, hasFile)

ConcStep(r) ==
    \/ CreateExamSave(r)
    \/ StartFindExam(r)
    \/ StartFindSubmission(r)
    \/ StartFindAttempt(r)
    \/ StartSave(r)
    \/ CompleteFindAttempt(r)
    \/ CompleteSave(r)
    \/ SubmitFindExam(r)
    \/ SubmitFindSubmission(r)
    \/ SubmitUpload(r)
    \/ SubmitSave(r)

ConcNext == \E r \in Slots : (FirstFree(r) /\ ConcArrive(r)) \/ ConcStep(r)

ConcSpec == Init /\ [][ConcNext]_vars

\* Requests are served one after the other, on one connection, against a
\* store built from the schemas as declared: no insert meets a duplicate, so
\* the indexes decide nothing here.
SeqSlots == {1}

SeqInit == Init /\ ~subUnique

SeqNext ==
    \/ \E r \in SeqSlots : Arrive(r) \/ Step(r)
    \/ Tick

SeqSpec == SeqInit /\ [][SeqNext]_vars

\* The exam routes, requested one after the other by the users of every role.
ExamNext == \E r \in SeqSlots : ExamArrive(r) \/ ExamStep(r)

ExamSpec == SeqInit /\ [][ExamNext]_vars

\* The submission lists: the teachers create exams, the student submits, and
\* the users of every role ask for the lists, one request after the other.
GradeArrive(r) ==
    \/ \E t \in Teachers \cup Colleagues, d \in Durations, mime \in Mimes :
          CreateExam(r, t, d, mime)
    \/ \E s \in Students, e \in IdsOf(exams) : Submit(r, s, e, TRUE)
    \/ ListArrive(r)

GradeStep(r) ==
    \/ CreateExamSave(r)
    \/ SubmitFindExam(r)
    \/ SubmitFindSubmission(r)
    \/ SubmitUpload(r)
    \/ SubmitSave(r)
    \/ ListStep(r)

GradeNext == \E r \in SeqSlots : GradeArrive(r) \/ GradeStep(r)

GradeSpec == SeqInit /\ [][GradeNext]_vars

\* The exam routes over a store that holds a record of the old data: an exam
\* written when the files were kept at an external host, whose document
\* carries the host's URL as examPdfUrl beside the examFileId of its file.
LegacyUrl == <<"h", "t", "t", "p", "s", ":", "/", "/", "c", "d", "n">>

LegacyExam(id, t, d, f) ==
    [id |-> id, examFileId |-> f, duration |-> d, createdBy |-> t,
     isActive |-> TRUE, examPdfUrl |-> LegacyUrl]

LegacyInit ==
    /\ exams = {LegacyExam(1, "t1", 1, 1)}
    /\ attempts = {}
    /\ submissions = {}
    /\ subUnique = FALSE
    /\ files = {NewFile(1, "application/pdf")}
    /\ now = 0
    /\ nextId = 2
    /\ reqs = [r \in Slots |-> Idle]

LegacySpec == LegacyInit /\ [][ExamNext]_vars

\* The exam's flag and the student: on the first connection the teacher
\* creates the exam, cancels it and activates it again, while the student's
\* Start and Submit are served on the others, the steps interleaving.
FlagTeacher(r) ==
    \/ \E t \in Teachers, d \in Durations, mime \in Mimes :
          /\ Cardinality(exams) + Creating < MaxExams
          /\ CreateExam(r, t, d, mime)
    \/ CreateExamSave(r)
    \/ \E t \in Teachers, e \in IdsOf(exams) : Cancel(r, t, e)
    \/ CancelFindExam(r)
    \/ CancelUpdate(r)
    \/ \E t \in Teachers, e \in IdsOf(exams) : Activate(r, t, e)
    \/ ActivateFindExam(r)
    \/ ActivateUpdate(r)

FlagStudent(r) ==
    \/ \E s \in Students, e \in IdsOf(exams) : Start(r, s, e)
    \/ StartFindExam(r)
    \/ StartFindSubmission(r)
    \/ StartFindAttempt(r)
    \/ StartSave(r)
    \/ \E s \in Students, e \in IdsOf(exams), hasFile \in BOOLEAN :
          Submit(r, s, e, hasFile)
    \/ SubmitFindExam(r)
    \/ SubmitFindSubmission(r)
    \/ SubmitUpload(r)
    \/ SubmitSave(r)

FlagNext ==
    \/ \E r \in SeqSlots : FlagTeacher(r)
    \/ \E r \in Slots \ SeqSlots : FlagStudent(r)

FlagSpec == SeqInit /\ [][FlagNext]_vars

\* One student's requests for an attempt, served concurrently: the steps of a
\* Start, a GetStatus, an UpdateTime and a Complete interleave at their awaits.
RaceArrive(r) ==
    \/ \E t \in Teachers, d \in Durations, mime \in Mimes :
          /\ Cardinality(exams) + Creating < MaxExams
          /\ CreateExam(r, t, d, mime)
    \/ \E s \in Students, e \in IdsOf(exams) : Start(r, s, e)
    \/ \E s \in Students, e \in IdsOf(exams) : GetStatus(r, s, e)
    \/ \E s \in Students, id \in IdsOf(attempts), tr \in TimeInputs :
          UpdateTime(r, s, id, tr)
    \/ \E s \in Students, id \in IdsOf(attempts) : Complete(r, s, id)

RaceNext ==
    \E r \in Slots :
        \/ FirstFree(r) /\ RaceArrive(r)
        \/ CreateExamSave(r)
        \/ OwnerStep(r)

RaceSpec == SeqInit /\ [][RaceNext]_vars

\* Two students and their attempts: a teacher creates the exam, and the two
\* students start, read, update and complete attempts, their own and each
\* other's, one request after the other.
OwnerNext ==
    \E r \in SeqSlots :
        \/ \E t \in Teachers, d \in Durations, mime \in Mimes :
              /\ Cardinality(exams) + Creating < MaxExams
              /\ CreateExam(r, t, d, mime)
        \/ CreateExamSave(r)
        \/ OwnerArrive(r)
        \/ OwnerStep(r)

OwnerSpec == SeqInit /\ [][OwnerNext]_vars

(***************************************************************************)
(* Properties.                                                             *)
(***************************************************************************)
Done(r, op) == reqs[r].op = op /\ reqs[r].pc = "done"
Running(r, op) == reqs[r].op = op /\ ~Free(r)
\* the step is one of slot r's handler and ends it
Ends(r, op) == Running(r, op) /\ reqs'[r].pc = "done"
\* the attempt rows that the request of slot r is about
RowsOfPair(r) == ByPair(attempts, reqs[r].user, reqs[r].target)
RowsOfId(r) == ByIdAndStudent(attempts, reqs[r].target, reqs[r].user)

\* C1: in every reachable state, also those reached by interleaving the steps
\* of concurrent Start requests, there is at most one ExamAttempt row per
\* (studentId, examId).
C1_OneAttemptPerPair ==
    \A a \in attempts, b \in attempts :
        (a.studentId = b.studentId /\ a.examId = b.examId) => a.id = b.id

\* two Start requests both passed the existence check, one inserted and the
\* other's insert was rejected
C1_Witness ==
    \E r \in Slots, q \in Slots :
        /\ r # q
        /\ Done(r, "start") /\ reqs[r].resp.code = 200
        /\ Done(q, "start") /\ reqs[q].resp.code = 500
        /\ reqs[r].user = reqs[q].user /\ reqs[r].target = reqs[q].target
        /\ Cardinality(attempts) = 1

\* the rows' identities and stored checkpoints
TimeOfRows(coll) == {<<a.id, a.studentId, a.examId, a.timeRemaining>> : a \in coll}

\* C2: a successful Start leaves exactly one row for the pair and returns
\* that row's id and stored timeRemaining; and a Start on a pair that has a
\* row creates none and changes no stored timeRemaining; and no row ever
\* goes away or changes its id.  So a second Start in a row returns the first
\* one's id and resets nothing.
C2_StartTwice ==
    /\ [](\A r \in Slots :
            (Done(r, "start") /\ reqs[r].resp.code = 200) =>
                /\ Cardinality(RowsOfPair(r)) = 1
                /\ \A a \in RowsOfPair(r) :
                      /\ reqs[r].resp.att.id = a.id
                      /\ reqs[r].resp.att.timeRemaining = a.timeRemaining)
    /\ [][\A r \in Slots :
            (Running(r, "start") /\ RowsOfPair(r) # {}) =>
                TimeOfRows(attempts') = TimeOfRows(attempts)]_vars
    /\ [][\A a \in attempts : \E b \in attempts' :
            b.id = a.id /\ b.studentId = a.studentId /\ b.examId = a.examId]_vars

\* a second Start resumed an attempt whose timer had been moved
C2_Witness ==
    \E r \in Slots :
        /\ Done(r, "start") /\ reqs[r].resp.code = 200
        /\ reqs[r].resp.att.lastAccessedAt > reqs[r].resp.att.startedAt
        /\ reqs[r].resp.att.timeRemaining = 1

\* C3: in every reachable state, also those reached by interleaving the steps
\* of concurrent Submit requests, there is at most one Submission row per
\* (studentId, examId).
C3_OneSubmissionPerPair ==
    \A a \in submissions, b \in submissions :
        (a.studentId = b.studentId /\ a.examId = b.examId) => a.id = b.id

\* C4: while a Submission exists for the pair, a Submit for it changes no
\* Submission row and is answered with 400, already submitted.
C4_SecondSubmitRefused ==
    [][\A r \in Slots :
        (Running(r, "submit")
            /\ ByPair(submissions, reqs[r].user, reqs[r].target) # {}) =>
                /\ submissions' = submissions
                /\ reqs'[r].pc = "done" =>
                      /\ reqs'[r].resp.code = 400
                      /\ reqs'[r].resp.msg = "already submitted"]_vars

C4_Witness ==
    \E r \in Slots :
        /\ Done(r, "submit") /\ reqs[r].resp.msg = "already submitted"
        /\ Cardinality(submissions) = 1

\* the insert that slot r is about to make meets a row with its key under a
\* unique index
Rejected(r) ==
    /\ reqs[r].pc = "save" /\ reqs[r].isNew
    /\ \/ reqs[r].op = "start" /\ DuplicateKey(attempts, reqs[r].doc)
       \/ reqs[r].op = "submit" /\ subUnique
                                /\ DuplicateKey(submissions, reqs[r].doc)

\* C5: a Start or Submit whose insert the unique index rejects is answered
\* with 400 (the duplicate error), not with 500.
C5_DuplicateMapped ==
    [][\A r \in Slots :
        (Rejected(r) /\ reqs'[r].pc = "done") => reqs'[r].resp.code = 400]_vars

\* two Submit requests both passed the existence check while the collection
\* carries the unique index, and the second insert was rejected
C5_Witness ==
    \E r \in Slots, q \in Slots :
        /\ Done(r, "submit") /\ reqs[r].resp.code = 201
        /\ Done(q, "submit") /\ reqs[q].resp.code = 500
        /\ subUnique /\ Cardinality(submissions) = 1

\* C6: Complete by the owner on an existing attempt succeeds and leaves it
\* with status completed and isCompleted true, whatever it was before; an
\* attempt with isCompleted true keeps it; and a Start on a pair whose attempt
\* has isCompleted true and that has no Submission is answered with 400,
\* already completed.
C6_CompleteIsFinal ==
    /\ [](\A r \in Slots :
            (Done(r, "complete") /\ RowsOfId(r) # {}) =>
                /\ reqs[r].resp.code = 200
                /\ \A a \in RowsOfId(r) :
                      a.status = "completed" /\ a.isCompleted)
    /\ [][\A a \in attempts :
            a.isCompleted => \E b \in attempts' : b.id = a.id /\ b.isCompleted]_vars
    /\ [][\A r \in Slots :
            (/\ Ends(r, "start")
             /\ \E a \in RowsOfPair(r) : a.isCompleted
             /\ ByPair(submissions, reqs[r].user, reqs[r].target) = {}) =>
                /\ reqs'[r].resp.code = 400
                /\ reqs'[r].resp.msg = "already completed"
                /\ attempts' = attempts]_vars

\* an attempt that had expired was completed, and a later Start was refused
C6_Witness ==
    \E r \in Slots :
        /\ Done(r, "start") /\ reqs[r].resp.msg = "already completed"
        /\ \E a \in RowsOfPair(r) :
              a.isCompleted /\ a.timeRemaining = 0 /\ a.status = "completed"

\* the remaining time, from the stored row and the clock alone
WholeSeconds(ms) == (ms - (ms % 1000)) \div 1000
Expected(a, t) ==
    LET left == a.timeRemaining - WholeSeconds(t - a.startedAt) IN
    IF left > 0 THEN left ELSE 0
\* the elapsed whole seconds have used up the stored timeRemaining
Elapsed(a, t) == t - a.startedAt >= a.timeRemaining * 1000

\* C7: a GetStatus that finds an attempt that is not completed and whose
\* elapsed time has reached the stored timeRemaining saves before it
\* answers, answers with status expired and timeRemaining 0 and leaves the
\* row with status expired and timeRemaining 0; on a row that is already so
\* it changes nothing and answers the same.
C7_ExpiryPersisted ==
    [][\A r \in Slots :
        (Running(r, "getStatus") /\ reqs'[r] # reqs[r]) =>
            /\ \A a \in RowsOfPair(r) :
                  (/\ reqs[r].pc = "findAttempt"
                   /\ a.status # "completed"
                   /\ Elapsed(a, now)) => reqs'[r].pc = "save"
            /\ reqs[r].pc = "save" =>
                  /\ reqs'[r].pc = "done"
                  /\ reqs'[r].resp.att.status = "expired"
                  /\ reqs'[r].resp.att.timeRemaining = 0
                  /\ \A a \in ByPair(attempts', reqs[r].user, reqs[r].target) :
                        a.status = "expired" /\ a.timeRemaining = 0
            /\ \A a \in RowsOfPair(r) :
                  (a.status = "expired" /\ a.timeRemaining = 0) =>
                      attempts' = attempts]_vars

\* an attempt ran out by the clock alone and GetStatus reported it expired
C7_Witness ==
    \E r \in Slots :
        /\ Done(r, "getStatus")
        /\ reqs[r].resp.att.id # 0
        /\ reqs[r].resp.att.status = "expired"
        /\ reqs[r].resp.att.timeRemaining = 0
        /\ \E a \in RowsOfPair(r) :
              /\ a.lastAccessedAt = a.startedAt
              /\ a.status = "expired" /\ a.timeRemaining = 0

\* C8: GetStatus creates no ExamAttempt row and answers with a null attempt
\* when the pair has none; when the remaining time it computes is above 0 it
\* answers at once and leaves the collection as it is.
C8_GetStatusReadsOnly ==
    [][\A r \in Slots :
        (Running(r, "getStatus") /\ reqs'[r] # reqs[r]) =>
            /\ {a.id : a \in attempts'} = {a.id : a \in attempts}
            /\ (reqs[r].pc = "findAttempt" /\ RowsOfPair(r) = {}) =>
                  /\ reqs'[r].pc = "done"
                  /\ reqs'[r].resp.code = 200
                  /\ reqs'[r].resp.att = NoDoc
            /\ \A a \in RowsOfPair(r) :
                  (reqs[r].pc = "findAttempt" /\ Expected(a, now) > 0) =>
                      /\ reqs'[r].pc = "done"
                      /\ attempts' = attempts]_vars

\* GetStatus reported a live remaining time below the stored checkpoint
C8_Witness ==
    \E r \in Slots :
        /\ Done(r, "getStatus")
        /\ reqs[r].resp.att.id # 0
        /\ reqs[r].resp.att.timeRemaining > 0
        /\ \E a \in RowsOfPair(r) :
              a.timeRemaining > reqs[r].resp.att.timeRemaining

\* C9: the timeRemaining that GetStatus reports for an existing attempt is
\* max(0, stored timeRemaining - whole seconds since startedAt), whatever
\* lastAccessedAt is.
C9_RemainingFormula ==
    [][\A r \in Slots :
        (Running(r, "getStatus") /\ reqs'[r] # reqs[r]) =>
            /\ \A a \in RowsOfPair(r) :
                  reqs[r].pc = "findAttempt" =>
                      IF reqs'[r].pc = "done"
                         THEN reqs'[r].resp.att.timeRemaining = Expected(a, now)
                         ELSE reqs'[r].aux = Expected(a, now)
            /\ reqs[r].pc = "save" =>
                  reqs'[r].resp.att.timeRemaining = reqs[r].aux]_vars

\* GetStatus on a resumed attempt: a second has passed since startedAt, less
\* than one since lastAccessedAt
C9_Witness ==
    \E r \in Slots :
        /\ Done(r, "getStatus")
        /\ reqs[r].resp.att.id # 0
        /\ reqs[r].resp.att.lastAccessedAt > reqs[r].resp.att.startedAt
        /\ now - reqs[r].resp.att.lastAccessedAt < 1000
        /\ reqs[r].resp.att.timeRemaining > 0
        /\ \E a \in RowsOfPair(r) :
              a.timeRemaining > reqs[r].resp.att.timeRemaining

\* C10: UpdateTime by the owner stores 0 and status expired for an input
\* below or equal to 0, and stores a positive input and keeps the status.
C10_UpdateTimeClamps ==
    [][\A r \in Slots :
        (Running(r, "updateTime") /\ reqs[r].pc = "save"
            /\ reqs'[r] # reqs[r]) =>
            \A a \in RowsOfId(r) :
                \E b \in attempts' :
                    /\ b.id = a.id
                    /\ reqs'[r].resp.code = 200
                    /\ IF reqs[r].arg <= 0
                          THEN b.timeRemaining = 0 /\ b.status = "expired"
                          ELSE /\ b.timeRemaining = reqs[r].arg
                               /\ b.status = a.status]_vars

\* a negative input was stored as 0 and expired the attempt
C10_Witness ==
    \E r \in Slots :
        /\ Done(r, "updateTime") /\ reqs[r].arg < 0
        /\ reqs[r].resp.code = 200
        /\ reqs[r].resp.att.timeRemaining = 0
        /\ \A a \in RowsOfId(r) : a.timeRemaining = 0 /\ a.status = "expired"

\* C11: in every reachable state, whatever Start, GetStatus, UpdateTime (with
\* any integer input) and Complete requests were served, every ExamAttempt row
\* has a stored timeRemaining of at least 0.
C11_TimeNotNegative == \A a \in attempts : a.timeRemaining >= 0

\* a negative input reached the store of a running attempt, which holds 0
C11_Witness ==
    \E r \in Slots :
        /\ Done(r, "updateTime") /\ reqs[r].arg = 0 - 5
        /\ \E a \in attempts :
              a.id = reqs[r].target /\ a.timeRemaining = 0
                                    /\ a.lastAccessedAt >= a.startedAt

\* the attempt is completed, by its flag or by its status
Completed(a) == a.isCompleted \/ a.status = "completed"

\* C12: an UpdateTime on an attempt that has isCompleted true or status
\* completed changes neither its stored timeRemaining nor its stored status.
C12_CompletedKeepsTime ==
    [][\A r \in Slots :
        Running(r, "updateTime") =>
            \A a \in RowsOfId(r) :
                Completed(a) =>
                    \E b \in attempts' :
                        /\ b.id = a.id
                        /\ b.timeRemaining = a.timeRemaining
                        /\ b.status = a.status]_vars

\* an UpdateTime with input 0 was served on a completed attempt, which now
\* has status expired with its isCompleted flag still set
C12_Witness ==
    \E r \in Slots :
        /\ Done(r, "updateTime") /\ reqs[r].resp.code = 200
        /\ \E a \in RowsOfId(r) : a.isCompleted /\ a.status = "expired"

\* the changes of stored status that a step makes, as <<from, to>>, taking
\* the rows by their ids
Transitions ==
    {<<a.status, b.status>> :
        <<a, b>> \in {p \in attempts \X attempts' :
                        p[1].id = p[2].id /\ p[1].status # p[2].status}}

\* C13: every change of the stored status is one of started->paused,
\* started->completed, started->expired, paused->started; the status of a
\* completed or expired attempt never changes.
C13_OnlyListedTransitions ==
    [][Transitions \subseteq {<<"started", "paused">>, <<"started", "completed">>,
                              <<"started", "expired">>, <<"paused", "started">>}]_vars

\* C13 as the handlers have it: Start's resume changes expired to started;
\* GetStatus changes started to expired; UpdateTime changes started or
\* completed to expired; Complete changes started or expired to completed;
\* and these are all the changes, so paused is never stored.
C13_TransitionsOfHandlers ==
    [][\A r \in Slots :
        reqs'[r] # reqs[r] =>
            Transitions \subseteq
                CASE reqs[r].op = "start" -> {<<"expired", "started">>}
                  [] reqs[r].op = "getStatus" -> {<<"started", "expired">>}
                  [] reqs[r].op = "updateTime" ->
                        {<<"started", "expired">>, <<"completed", "expired">>}
                  [] reqs[r].op = "complete" ->
                        {<<"started", "completed">>, <<"expired", "completed">>}
                  [] OTHER -> {}]_vars

\* a Start resumed an attempt that had expired: the row is started again and
\* its stored timeRemaining is 0
C13_Witness ==
    \E r \in Slots :
        /\ Done(r, "start") /\ reqs[r].resp.code = 200
        /\ \E a \in RowsOfPair(r) :
              /\ a.status = "started" /\ a.timeRemaining = 0
              /\ a.lastAccessedAt > a.startedAt

\* C14: while a Submission exists for the pair, a Start for it is answered
\* with 400, already attempted, whatever attempt the pair has (none, started,
\* expired or completed), and neither creates an ExamAttempt row nor changes
\* one.
C14_SubmittedBlocksStart ==
    [][\A r \in Slots :
        (Running(r, "start") /\ reqs'[r] # reqs[r]
            /\ ByPair(submissions, reqs[r].user, reqs[r].target) # {}) =>
                /\ attempts' = attempts
                /\ reqs[r].pc = "findSubmission" => reqs'[r].pc = "done"
                /\ reqs'[r].pc = "done" =>
                      /\ reqs'[r].resp.code = 400
                      /\ reqs'[r].resp.msg = "already attempted"]_vars

\* a Start was refused for a pair that has a submission and an attempt that
\* is not completed
C14_Witness ==
    \E r \in Slots :
        /\ Done(r, "start") /\ reqs[r].resp.msg = "already attempted"
        /\ ByPair(submissions, reqs[r].user, reqs[r].target) # {}
        /\ \E a \in RowsOfPair(r) : ~a.isCompleted

\* slot r serves a Submit with a file for an exam that exists, by a student
\* who has no Submission for it
FirstSubmit(r) ==
    /\ Running(r, "submit")
    /\ \E x \in exams : x.id = reqs[r].target
    /\ ByPair(submissions, reqs[r].user, reqs[r].target) = {}

\* the step creates one Submission, for the pair of slot r, with status
\* submitted
CreatesSubmission(r) ==
    \E d \in submissions' :
        /\ submissions' = submissions \cup {d} /\ d \notin submissions
        /\ d.studentId = reqs[r].user /\ d.examId = reqs[r].target
        /\ d.status = "submitted"

\* C15: a Submit for an existing exam by a student without a Submission for it
\* succeeds, whatever attempt the student has (none, started, completed or
\* expired): it is answered with 201, creates a Submission with status
\* submitted and leaves every ExamAttempt row as it is.
C15_SubmitSucceeds ==
    [][\A r \in Slots :
        (FirstSubmit(r) /\ reqs'[r] # reqs[r]) =>
            /\ attempts' = attempts
            /\ reqs'[r].pc = "done" =>
                  reqs'[r].resp.code = 201 /\ CreatesSubmission(r)]_vars

\* C15 as the handler has it: the Submit is never refused and changes no
\* ExamAttempt row; it ends either with 201 and the new Submission, or, when
\* the upload of the answer file fails, with 500 and no Submission.
C15_SubmitUnlessUploadFails ==
    [][\A r \in Slots :
        (FirstSubmit(r) /\ reqs'[r] # reqs[r]) =>
            /\ attempts' = attempts
            /\ reqs'[r].pc = "done" =>
                  \/ /\ reqs[r].pc = "save"
                     /\ reqs'[r].resp.code = 201 /\ CreatesSubmission(r)
                  \/ /\ reqs[r].pc = "upload"
                     /\ reqs'[r].resp.code = 500
                     /\ submissions' = submissions]_vars

\* a Submit succeeded for a student whose attempt is completed
C15_Witness ==
    \E r \in Slots :
        /\ Done(r, "submit") /\ reqs[r].resp.code = 201
        /\ reqs[r].resp.att.status = "submitted"
        /\ \E a \in RowsOfPair(r) : a.isCompleted /\ a.status = "completed"

\* C16: a file request whose reference is taken for an external URL is
\* answered with a redirect to that same reference, and its handler reaches
\* neither the Exam lookup nor the read of the bucket.
C16_UrlRedirects ==
    \A r \in Slots :
        (reqs[r].op = "getFile" /\ StartsWithHttp(reqs[r].ref)) =>
            /\ reqs[r].pc = "done"
            /\ reqs[r].resp.code = 302
            /\ reqs[r].resp.att = Redirect(reqs[r].ref)

\* a URL was requested while an exam and its file exist, and was redirected to
C16_Witness ==
    \E r \in Slots :
        /\ Done(r, "getFile") /\ reqs[r].resp.code = 302
        /\ Len(reqs[r].ref) > 4
        /\ reqs[r].resp.att.location = reqs[r].ref
        /\ exams # {} /\ files # {}

\* the exam that owns the file that slot r asks for, and the file in the bucket
OwnerOf(r) == ByFile(exams, reqs[r].ref)
StoredFile(r) == InBucket(files, reqs[r].ref)

Listed(r) ==
    {reqs'[r].resp.att.exams[i] : i \in 1..Len(reqs'[r].resp.att.exams)}

\* C18: the exam list that a student gets is exactly the exams with isActive
\* true, and the list that an admin gets is all the exams, whatever exams
\* were created, cancelled and activated before.
C18_StudentAndAdminLists ==
    [][\A r \in Slots :
        Ends(r, "listExams") =>
            /\ Role(reqs[r].user) = "student" =>
                  /\ Listed(r) = {x \in exams : x.isActive}
                  /\ Len(reqs'[r].resp.att.exams) = Cardinality(Listed(r))
            /\ Role(reqs[r].user) = "admin" =>
                  /\ Listed(r) = exams
                  /\ Len(reqs'[r].resp.att.exams) = Cardinality(exams)]_vars

\* a student got a list of one exam while another exam is cancelled
C18_Witness ==
    \E r \in Slots :
        /\ Done(r, "listExams") /\ Role(reqs[r].user) = "student"
        /\ Len(reqs[r].resp.att.exams) = 1
        /\ reqs[r].resp.att.exams[1].isActive
        /\ \E x \in exams : ~x.isActive

\* C19: the exam list that a teacher gets holds no exam that another teacher
\* created.
C19_TeacherSeesNoOthers ==
    [][\A r \in Slots :
        (Ends(r, "listExams") /\ Role(reqs[r].user) = "teacher") =>
            \A x \in Listed(r) : x.createdBy = reqs[r].user]_vars

\* a teacher got a list with an exam in it while an active exam of another
\* teacher exists
C19_Witness ==
    \E r \in Slots :
        /\ Done(r, "listExams") /\ Role(reqs[r].user) = "teacher"
        /\ Len(reqs[r].resp.att.exams) >= 1
        /\ \E x \in exams : x.isActive /\ x.createdBy # reqs[r].user

\* C20: the exam list that a teacher gets holds every exam that the teacher
\* created, active or not: a cancelled exam is still in its creator's list.
C20_TeacherSeesAllOwn ==
    [][\A r \in Slots :
        (Ends(r, "listExams") /\ Role(reqs[r].user) = "teacher") =>
            {x \in exams : x.createdBy = reqs[r].user} \subseteq Listed(r)]_vars

\* C20 as the handler has it: an exam that the teacher created is in the
\* teacher's list exactly when it is active, so a cancelled exam is not in
\* its creator's list until it is activated again.
C20_TeacherSeesOwnActive ==
    [][\A r \in Slots :
        (Ends(r, "listExams") /\ Role(reqs[r].user) = "teacher") =>
            \A x \in exams :
                x.createdBy = reqs[r].user => (x \in Listed(r) <=> x.isActive)]_vars

\* a teacher who has a cancelled exam and an active one got a list of one
C20_Witness ==
    \E r \in Slots :
        /\ Done(r, "listExams") /\ Role(reqs[r].user) = "teacher"
        /\ Len(reqs[r].resp.att.exams) = 1
        /\ \E x \in exams : x.createdBy = reqs[r].user /\ ~x.isActive
        /\ \E x \in exams : x.createdBy = reqs[r].user /\ x.isActive

\* slot r serves a cancel or activate request of a teacher for an exam that
\* exists and that another teacher created
NotCreator(r) ==
    /\ ~Free(r) /\ reqs[r].op \in {"cancel", "activate"}
    /\ \E x \in exams : x.id = reqs[r].target /\ x.createdBy # reqs[r].user

\* every exam whose isActive the step changes was the target of a cancel or
\* activate request that its creator made
ToggledByCreator ==
    \A x \in exams, y \in exams' :
        (x.id = y.id /\ x.isActive # y.isActive) =>
            \E r \in Slots :
                /\ ~Free(r) /\ reqs[r].op \in {"cancel", "activate"}
                /\ reqs[r].target = x.id /\ reqs[r].user = x.createdBy

\* C21: a cancel or activate request for an existing exam by a teacher who
\* did not create it is answered with 403 and leaves the exam's isActive as
\* it is; isActive changes only by a cancel or activate of the creator.
C21_NonCreatorForbidden ==
    [][/\ \A r \in Slots :
            (NotCreator(r) /\ reqs'[r] # reqs[r]) =>
                /\ exams' = exams
                /\ reqs'[r].pc = "done" /\ reqs'[r].resp.code = 403
       /\ ToggledByCreator]_vars

\* C21 as the handlers have it: the request of a teacher who is not the
\* creator is answered with 404, as for an exam that does not exist, and
\* changes no exam; isActive changes only by a cancel or activate of the
\* creator.
C21_NonCreatorNotFound ==
    [][/\ \A r \in Slots :
            (NotCreator(r) /\ reqs'[r] # reqs[r]) =>
                /\ exams' = exams
                /\ reqs'[r].pc = "done" /\ reqs'[r].resp.code = 404
       /\ ToggledByCreator]_vars

\* a teacher's cancel of a colleague's active exam was refused, and the exam
\* is active still
C21_Witness ==
    \E r \in Slots :
        /\ Done(r, "cancel") /\ reqs[r].resp.code = 404
        /\ \E x \in exams :
              /\ x.id = reqs[r].target /\ x.createdBy # reqs[r].user
              /\ x.isActive


\* the submissions of the list that slot r answered with
ListedSubmissions(r) ==
    {reqs[r].resp.att.submissions[i] :
        i \in 1..Len(reqs[r].resp.att.submissions)}

\* the submissions of exams that teacher u did not create
OfOthers(u, rows) ==
    {sub \in rows : \E x \in exams : x.id = sub.examId /\ x.createdBy # u}

\* C22: no list of submissions answered to a teacher, by the list of all or by
\* the list of one exam, holds a submission of an exam another teacher
\* created; the list answered to an admin holds every submission; a student's
\* request for the list of all is refused with 403.
C22_ListsByRole ==
    \A r \in Slots :
        /\ (Done(r, "listSubmissions") \/ Done(r, "examSubmissions")) =>
              /\ Role(reqs[r].user) = "student" => reqs[r].resp.code = 403
              /\ (Role(reqs[r].user) = "teacher" /\ reqs[r].resp.code = 200) =>
                    OfOthers(reqs[r].user, ListedSubmissions(r)) = {}
        /\ (Done(r, "listSubmissions") /\ Role(reqs[r].user) = "admin") =>
              /\ reqs[r].resp.code = 200
              /\ ListedSubmissions(r) = submissions
              /\ Len(reqs[r].resp.att.submissions) = Cardinality(submissions)

\* C22 witness: a teacher was answered the list of all while a submission of
\* another teacher's exam is stored
C22_Witness ==
    \E r \in Slots :
        /\ Done(r, "listSubmissions") /\ reqs[r].resp.code = 200
        /\ Role(reqs[r].user) = "teacher"
        /\ OfOthers(reqs[r].user, submissions) # {}


\* the attempt of its pair that a Start on slot r is about to resume
Resumable(r) ==
    {a \in RowsOfPair(r) : ~a.isCompleted /\ Running(r, "start")}

\* C23: a Start on a pair whose attempt exists with isCompleted = false and
\* that has no Submission, whatever the attempt's status, reads the clock when
\* it has found the attempt and then stores status started and that instant as
\* lastAccessedAt, leaving every other field of the row (timeRemaining,
\* startedAt, isCompleted) and every other row as they were.
C23_ResumeKeepsTimer ==
    [][\A r \in Slots : \A a \in Resumable(r) :
          /\ (reqs[r].pc = "findAttempt" /\ reqs'[r] # reqs[r]) =>
                /\ reqs'[r].pc = "save" /\ ~reqs'[r].isNew
                /\ reqs'[r].doc.lastAccessedAt = now
                /\ attempts' = attempts
          /\ (reqs[r].pc = "save" /\ reqs'[r] # reqs[r]) =>
                /\ attempts' = (attempts \ {a}) \cup
                      {[a EXCEPT !.status = "started",
                                 !.lastAccessedAt = reqs[r].doc.lastAccessedAt]}
                /\ reqs'[r].pc = "done" /\ reqs'[r].resp.code = 200]_vars

\* C23 witness: a Start resumed an expired attempt, which is started again
\* with no time left
C23_Witness ==
    \E r \in Slots :
        /\ Done(r, "start") /\ reqs[r].resp.code = 200
        /\ reqs[r].resp.att.timeRemaining = 0
        /\ \E a \in RowsOfPair(r) :
              a.status = "started" /\ a.timeRemaining = 0 /\ ~a.isCompleted


\* the exam a request on slot r names, if it exists
ExamOf(r) == {x \in exams : x.id = reqs[r].target}

\* C24: a Start that finds the exam, no Submission and no attempt of the pair
\* inserts exactly one ExamAttempt, with timeRemaining = duration * 60, status
\* started and isCompleted false, and answers with that row; a Start on an
\* exam that does not exist is answered with 404 and no step of it changes
\* the attempts.
C24_StartCreates ==
    [][\A r \in Slots : (Running(r, "start") /\ reqs'[r] # reqs[r]) =>
          /\ ExamOf(r) = {} =>
                /\ attempts' = attempts
                /\ reqs'[r].pc = "done" /\ reqs'[r].resp.code = 404
          /\ (reqs[r].pc = "findAttempt" /\ RowsOfPair(r) = {}) =>
                reqs'[r].pc = "save" /\ reqs'[r].isNew
          /\ (reqs[r].pc = "save" /\ RowsOfPair(r) = {}) =>
                /\ reqs'[r].pc = "done" /\ reqs'[r].resp.code = 200
                /\ \E a \in attempts' \ attempts :
                      /\ attempts' = attempts \cup {a}
                      /\ a.studentId = reqs[r].user /\ a.examId = reqs[r].target
                      /\ \A x \in ExamOf(r) : a.timeRemaining = x.duration * 60
                      /\ a.status = "started" /\ ~a.isCompleted
                      /\ reqs'[r].resp.att = a]_vars

\* C24 witness: a Start was answered with the attempt it created, which is
\* the pair's only row and holds the exam's minutes in seconds
C24_Witness ==
    \E r \in Slots :
        /\ Done(r, "start") /\ reqs[r].resp.code = 200
        /\ RowsOfPair(r) = {reqs[r].resp.att}
        /\ \E x \in ExamOf(r) : reqs[r].resp.att.timeRemaining = x.duration * 60
        /\ reqs[r].resp.att.startedAt = reqs[r].resp.att.lastAccessedAt

\* C24 witness of the other case: a Start on an exam that does not exist was
\* answered with 404
C24_NoExamWitness ==
    \E r \in Slots :
        Done(r, "start") /\ reqs[r].resp.code = 404 /\ ExamOf(r) = {}


\* slot r runs an UpdateTime or a Complete that names no attempt of its caller
NotOwner(r) ==
    /\ ~Free(r) /\ reqs[r].op \in {"updateTime", "complete"}
    /\ RowsOfId(r) = {}

\* every attempt that a step changes belongs to the student of a request that
\* is being served
ChangedByOwner ==
    \A a \in attempts :
        a \notin attempts' =>
            \E r \in Slots : ~Free(r) /\ reqs[r].user = a.studentId

\* C25: an UpdateTime or a Complete whose attemptId names no attempt of the
\* calling student is answered with 404 and changes no row; and no step
\* changes an attempt unless it is a step of a request of the attempt's owner.
C25_OnlyOwnerWrites ==
    [][/\ \A r \in Slots : (NotOwner(r) /\ reqs'[r] # reqs[r]) =>
              /\ attempts' = attempts /\ submissions' = submissions
              /\ exams' = exams
              /\ reqs'[r].pc = "done" /\ reqs'[r].resp.code = 404
       /\ ChangedByOwner]_vars

\* C25 witness: a student's Complete that named the other student's attempt
\* was answered with 404, and that attempt is still running
C25_Witness ==
    \E r \in Slots :
        /\ Done(r, "complete") /\ reqs[r].resp.code = 404
        /\ \E a \in attempts :
              /\ a.id = reqs[r].target /\ a.studentId # reqs[r].user
              /\ a.status = "started" /\ ~a.isCompleted


\* slot r is about to save an attempt that it loaded before the attempt was
\* completed, and a is that attempt as it is stored now, completed
LoadedBeforeCompletion(r, a) ==
    /\ reqs[r].op \in {"getStatus", "start", "updateTime"}
    /\ reqs[r].pc = "save" /\ ~reqs[r].isNew
    /\ reqs[r].doc.id = a.id /\ ~reqs[r].doc.isCompleted
    /\ a.isCompleted /\ a.status = "completed"

\* C26: when a Complete interleaves with a GetStatus expiry check, a resuming
\* Start or an UpdateTime on the same attempt, the save of the other request
\* does not overwrite the completion: the attempt stays with status completed
\* and isCompleted true.
C26_CompleteNotOverwritten ==
    [][\A r \in Slots : \A a \in attempts :
          (LoadedBeforeCompletion(r, a) /\ reqs'[r].pc = "done") =>
              \E b \in attempts' :
                  b.id = a.id /\ b.isCompleted /\ b.status = "completed"]_vars

\* C26 witness: every request is answered, a Complete among them with 200,
\* and its attempt is stored as started with isCompleted true, which only the
\* save of a Start that resumed it meanwhile can leave
C26_Witness ==
    /\ \A q \in Slots : Free(q) \/ reqs[q].pc = "done"
    /\ \E r \in Slots :
          /\ Done(r, "complete") /\ reqs[r].resp.code = 200
          /\ \E a \in attempts :
                a.id = reqs[r].target /\ a.isCompleted /\ a.status = "started"


\* C27: under every interleaving of a Start and a Submit of the same student
\* for the same exam, no Start creates or resumes the pair's attempt, and is
\* answered with it, at a moment when a Submission of the pair is stored.
C27_NoStartAfterSubmission ==
    [][\A r \in Slots :
          (/\ reqs[r].op = "start" /\ reqs[r].pc = "save"
           /\ reqs'[r].pc = "done" /\ reqs'[r].resp.code = 200) =>
              ByPair(submissions, reqs[r].user, reqs[r].target) = {}]_vars

\* C27 witness: a Submit of the pair was answered with 201 and its Submission
\* is stored while a Start of the pair, which looked for a Submission before,
\* holds the attempt it is about to insert
C27_Witness ==
    \E r \in Slots, q \in Slots :
        /\ reqs[r].op = "start" /\ reqs[r].pc = "save" /\ reqs[r].isNew
        /\ Done(q, "submit") /\ reqs[q].resp.code = 201
        /\ reqs[q].user = reqs[r].user /\ reqs[q].target = reqs[r].target
        /\ reqs[q].resp.att \in submissions


\* the exams that own the file a request on slot r names and whose stored
\* document has a populated external URL
LegacyOwners(r) ==
    {x \in OwnerOf(r) :
        "examPdfUrl" \in DOMAIN x /\ StartsWithHttp(x.examPdfUrl)}

Allowed(a) == {x.duration * 60 : x \in {y \in exams : y.id = a.examId}}

\* C29: the stored timeRemaining of an attempt never exceeds its exam's
\* duration * 60, and no step increases it, under every sequence of Start,
\* GetStatus, UpdateTime with any integer input and Complete.
C29_TimeOnlyDecreases ==
    /\ [](\A a \in attempts : \A limit \in Allowed(a) :
            a.timeRemaining <= limit)
    /\ [][\A a \in attempts : \A b \in attempts' :
            b.id = a.id => b.timeRemaining <= a.timeRemaining]_vars

\* C29 witness: an UpdateTime was served and answered with more seconds than
\* the exam allows, which are stored
C29_Witness ==
    \E r \in Slots :
        /\ Done(r, "updateTime") /\ reqs[r].resp.code = 200
        /\ \E a \in RowsOfId(r) : \E limit \in Allowed(a) :
              a.timeRemaining > limit /\ reqs[r].resp.att.timeRemaining > limit

\* C30: in every reachable state an attempt has isCompleted = true if and
\* only if its stored status is completed, under every sequence of Start,
\* GetStatus, UpdateTime and Complete by its owner.
C30_FlagMatchesStatus ==
    \A a \in attempts : a.isCompleted <=> a.status = "completed"

\* C30 witness: an attempt is stored with its isCompleted flag set, no time
\* left and a status that is not completed
C30_Witness ==
    \E a \in attempts :
        a.isCompleted /\ a.status # "completed" /\ a.timeRemaining = 0


\* C31 as stated: in every reachable state an expired attempt has stored
\* timeRemaining = 0 and a started attempt has stored timeRemaining > 0.
C31_StatusMatchesTime ==
    \A a \in attempts :
        /\ a.status = "expired" => a.timeRemaining = 0
        /\ a.status = "started" => a.timeRemaining > 0

\* C31: an attempt is created started with timeRemaining > 0, and a step that
\* makes it expired stores timeRemaining = 0 with the status.  Afterwards the
\* two part in two ways only: an UpdateTime with a positive input stores its
\* input on an expired attempt, which stays expired; and a Start that resumes
\* an expired attempt stores started over its timeRemaining of 0.
C31_StatusFollowsTime ==
    [][/\ \A b \in attempts' :
             (\A a \in attempts : a.id # b.id) =>
                 b.status = "started" /\ b.timeRemaining > 0
       /\ \A a \in attempts : \A b \in attempts' :
             b.id = a.id =>
                 /\ (a.status # "expired" /\ b.status = "expired") =>
                        b.timeRemaining = 0
                 /\ (b.status = "expired" /\ b.timeRemaining > 0) =>
                        /\ a.status = "expired"
                        /\ \/ b.timeRemaining = a.timeRemaining
                           \/ \E r \in Slots :
                                 /\ Running(r, "updateTime")
                                 /\ reqs[r].arg = b.timeRemaining
                 /\ (b.status = "started" /\ b.timeRemaining = 0) =>
                        \/ a.status = "started" /\ a.timeRemaining = 0
                        \/ /\ a.status = "expired" /\ a.timeRemaining = 0
                           /\ \E r \in Slots : Running(r, "start")]_vars

\* C31 witness: an UpdateTime with a positive input was served on an expired
\* attempt, which is stored expired with that input as its timeRemaining
C31_Witness ==
    \E r \in Slots :
        /\ Done(r, "updateTime") /\ reqs[r].resp.code = 200 /\ reqs[r].arg > 0
        /\ \E a \in RowsOfId(r) :
              a.status = "expired" /\ a.timeRemaining = reqs[r].arg


\* the update of a cancel or of an activate that slot q is about to make
Toggle(q) == CancelUpdate(q) \/ ActivateUpdate(q)

\* what a step of the request on slot r answers and changes
Effect(r) == <<reqs[r], attempts, submissions, nextId, files>>

\* the student's step on slot r is possible with the effect w
SameEffect(r, w) == ENABLED (FlagStudent(r) /\ Effect(r)' = w)

\* C32: the outcome of Start and of Submit for an existing exam does not
\* depend on the exam's isActive: whenever a step of a Start or a Submit is
\* taken in a state where the creator's cancel or activate is about to flip
\* the flag, the same step, with the same response and the same change to
\* attempts and submissions, is possible in the state that differs by the
\* flipped flag.
C32_FlagIndependent ==
    [][\A q \in SeqSlots : \A r \in Slots \ SeqSlots :
          (ENABLED Toggle(q) /\ reqs'[r] # reqs[r]) =>
              \E w \in {Effect(r)'} :
                  ENABLED (Toggle(q) /\ SameEffect(r, w)')]_vars

\* C32 witness: the exam is cancelled, its activation pending, and the
\* student's Submit for it was answered with 201 and its Submission stored
\* beside the attempt the student's Start left
C32_Witness ==
    \E q \in SeqSlots : \E r \in Slots \ SeqSlots :
        /\ reqs[q].op = "activate" /\ reqs[q].pc = "update"
        /\ \E x \in exams : x.id = reqs[r].target /\ ~x.isActive
        /\ Done(r, "submit") /\ reqs[r].resp.code = 201
        /\ reqs[r].resp.att \in submissions
        /\ ByPair(attempts, reqs[r].user, reqs[r].target) # {}


\* C33: the status paused is never stored: in every state reached through
\* Start, GetStatus, UpdateTime and Complete every attempt's stored status is
\* started, expired or completed.
C33_NeverPaused ==
    \A a \in attempts : a.status \in {"started", "expired", "completed"}

\* C33 witness: an attempt that ran out of time, and so has been started and
\* expired, was completed by a Complete answered with 200
C33_Witness ==
    \E r \in Slots :
        /\ Done(r, "complete") /\ reqs[r].resp.code = 200
        /\ \E a \in RowsOfId(r) :
              a.status = "completed" /\ a.timeRemaining = 0 /\ a.isCompleted

====
